---- MODULE Spec2Model ----
(***************************************************************************)
(* Agent Studio (src/app/src/components/AgentStudio.tsx): the view state   *)
(* of the AgentStudio component and its event handlers.                     *)
(*                                                                          *)
(* Strings that the code only stores or compares are TLA+ strings.  The     *)
(* insight draft, which the code trims, is a sequence of one-character      *)
(* strings.  Date.now() is the variable clock, which the environment        *)
(* advances.  The functions imported from "@/lib/agent" are not part of     *)
(* the component's file; they are modelled from the specification.          *)
(***************************************************************************)
EXTENDS Integers, Sequences, FiniteSets

VARIABLES
    config,           \* useState<MissionConfig>, line 90
    blueprint,        \* useState<AgentBlueprint>, lines 91-92
    planStates,       \* useState<PlanState>, lines 93-99: step id -> status
    activity,         \* useState<ActivityLogItem[]>, lines 100-105
    insights,         \* useState<Insight[]>, line 106
    insightDraft,     \* useState(""), line 107
    insightCategory,  \* useState("signal"), lines 108-109
    knowledgeQuery,   \* useState(""), line 110
    toolHistory,      \* useState<ToolHistory>({}), line 111: tool id -> runs
    clock,            \* the reading of Date.now()
    advances,         \* history: handleAdvance calls since the plan was generated
    fired,            \* history: every run of each tool id, newest first
    performed         \* history: generate, advance, fire and accepted insight operations so far

vars == <<config, blueprint, planStates, activity, insights, insightDraft,
          insightCategory, knowledgeQuery, toolHistory, clock, advances, fired,
          performed>>

----------------------------------------------------------------------------
(* Bounds of the model *)

\* the activity log holds at most this many entries under Spec
MaxActivity == 3
\* the activity log holds at most this many entries under SpecPlan
MaxPlanActivity == 6
\* the activity log holds at most this many entries under SpecTools
MaxToolActivity == 8
\* the activity log holds at most this many entries under SpecInsight
MaxInsightActivity == 4
\* the largest reading of the clock
MaxClock == 1
\* the longest text typed into the knowledge search box under SpecKnowledge
MaxQueryLen == 4

\* slice(0, 5) in handleToolRun
HISTORY_LIMIT == 5

----------------------------------------------------------------------------
(* Input values *)

Goals == {"pipeline", ""}
Contexts == {"saas"}
timeframeOptions == {"90 days", "30 days"}
intensityOptions == {"aggressive", "balanced"}
GuardrailTexts == {"trust"}
categoryOptions == {"signal", "decision", "note"}
\* texts set in the knowledge search box: empty, one that matches
Queries == {<<>>, <<"a", "b">>}
\* the characters typed into the knowledge search box
QueryChars == {"a", "b", "c"}
\* drafts typed into the insight box: empty, blank, padded text
Drafts == {<<>>, <<" ", " ">>, <<" ", "a", "b", " ">>}

StepIds == {"step-1", "step-2", "step-3"}
ToolIds == {"radar", "forge", "pulse"}

INITIAL_CONFIG ==
    [goal |-> "pipeline", context |-> "saas", timeframe |-> "90 days",
     intensity |-> "aggressive", guardrails |-> "trust"]

----------------------------------------------------------------------------
(* "@/lib/agent" *)

\* craftBlueprint: a pure function of the configuration; the plan is an
\* ordered list of steps with distinct ids, the tools a list of tool ids
craftBlueprint(cfg) ==
    [missionTitle |-> cfg.goal,
     operatingMode |-> cfg.intensity,
     cadence |-> cfg.timeframe,
     plan |-> IF cfg.intensity = "aggressive"
              THEN <<"step-1", "step-2">>
              ELSE <<"step-1", "step-2", "step-3">>,
     tools |-> IF cfg.timeframe = "90 days"
               THEN <<"radar", "forge">>
               ELSE <<"forge", "pulse">>]

INITIAL_BLUEPRINT == craftBlueprint(INITIAL_CONFIG)

\* createActivity(label, detail): an ActivityLogItem stamped with the clock
createActivity(label, detail, now) ==
    [label |-> label, detail |-> detail, timestamp |-> now]

\* runToolSimulation(toolId, query): one ToolRun, stamped with the clock; its
\* insight and signalStrength are display text no handler reads
runToolSimulation(toolId, query, now) ==
    [timestamp |-> now, headline |-> <<toolId, query>>]

\* the fixed in-memory catalog of knowledge items
KNOWLEDGE ==
    << [id |-> "k1", title |-> <<"a", "b">>, summary |-> <<"c", "a">>,
        tags |-> {<<"b", "b">>}],
       [id |-> "k2", title |-> <<"b", "c">>, summary |-> <<"a", "a">>,
        tags |-> {<<"c", "c">>, <<"a", "b", "c">>}] >>

\* text contains query as a substring
Contains(text, query) ==
    \E i \in 0..(Len(text) - Len(query)) : SubSeq(text, i + 1, i + Len(query)) = query

ItemMatches(item, query) ==
    \/ Contains(item.title, query)
    \/ Contains(item.summary, query)
    \/ \E tag \in item.tags : Contains(tag, query)

\* searchKnowledge(query): the items whose title, summary or tags contain the
\* query, in catalog order; the whole catalog for the empty query
searchKnowledge(query) ==
    IF query = <<>> THEN KNOWLEDGE
    ELSE SelectSeq(KNOWLEDGE, LAMBDA item : ItemMatches(item, query))

----------------------------------------------------------------------------
(* Helpers of the component *)

Min(a, b) == IF a < b THEN a ELSE b

\* Array.prototype.slice(0, n)
Slice(s, n) == SubSeq(s, 1, Min(n, Len(s)))

\* Array.prototype.findIndex, 1-based; 0 when no element matches (-1 in JS)
FindIndex(plan, id) ==
    IF \E i \in 1..Len(plan) : plan[i] = id
    THEN CHOOSE i \in 1..Len(plan) :
            plan[i] = id /\ \A j \in 1..(i - 1) : plan[j] # id
    ELSE 0

\* String.prototype.trim on a sequence of characters
RECURSIVE TrimLeft(_)
TrimLeft(s) ==
    IF s # <<>> /\ Head(s) = " " THEN TrimLeft(Tail(s)) ELSE s

RECURSIVE TrimRight(_)
TrimRight(s) ==
    IF s # <<>> /\ s[Len(s)] = " " THEN TrimRight(SubSeq(s, 1, Len(s) - 1)) ELSE s

Trim(s) == TrimRight(TrimLeft(s))

\* the guard without trim(): if (!insightDraft) return
InsightAcceptedUntrimmed(draft) == draft # <<>>

\* line 161: if (!insightDraft.trim()) return
InsightAccepted(draft) == Trim(draft) # <<>>

\* FreshPlanStates with the test index === 0 lost: every step pending
FreshPlanStatesNoActive(plan) ==
    [id \in {plan[i] : i \in 1..Len(plan)} |-> "pending"]

\* lines 94-98 and 126-129: forEach over the plan, a later write to the same
\* id replacing an earlier one
FreshPlanStates(plan) ==
    [id \in {plan[i] : i \in 1..Len(plan)} |->
        LET last == CHOOSE i \in 1..Len(plan) :
                        plan[i] = id /\ \A j \in (i + 1)..Len(plan) : plan[j] # id
        IN IF last = 1 THEN "active" ELSE "pending"]

\* line 450: planStates[step.id] ?? "pending"
StepStatus(states, id) ==
    IF id \in DOMAIN states THEN states[id] ELSE "pending"

\* the advance button disabled only on a done step: disabled={isDone}
AdvanceEnabledUnlessDone(states, id) == StepStatus(states, id) # "done"

\* lines 451, 500: the advance button is disabled unless the step is active
AdvanceEnabled(states, id) == StepStatus(states, id) = "active"

\* useMemo with an empty dependency list: computed once, for the initial query
knowledgeResultsStale == searchKnowledge(<<>>)

\* lines 113-116: useMemo(() => searchKnowledge(knowledgeQuery), [knowledgeQuery])
knowledgeResults == searchKnowledge(knowledgeQuery)

\* lines 118-121: blueprint.plan.find(...), as an index into the plan; 0 is undefined
activeStep ==
    IF \E i \in 1..Len(blueprint.plan) : StepStatus(planStates, blueprint.plan[i]) = "active"
    THEN CHOOSE i \in 1..Len(blueprint.plan) :
            /\ StepStatus(planStates, blueprint.plan[i]) = "active"
            /\ \A j \in 1..(i - 1) : StepStatus(planStates, blueprint.plan[j]) # "active"
    ELSE 0

\* AdvanceStates without the write of "done" at line 142
AdvanceStatesLeavesActive(prev, plan, id) ==
    LET currentIndex == FindIndex(plan, id)
        hasNext == currentIndex + 1 <= Len(plan)
        keys == DOMAIN prev \cup (IF hasNext THEN {plan[currentIndex + 1]} ELSE {})
    IN [k \in keys |->
            IF hasNext /\ k = plan[currentIndex + 1] THEN "active" ELSE prev[k]]

\* AdvanceStates activating the step after the next: plan[currentIndex + 2]
AdvanceStatesSkipsOne(prev, plan, id) ==
    LET currentIndex == FindIndex(plan, id)
        hasNext == currentIndex + 2 <= Len(plan)
        keys == DOMAIN prev \cup {id} \cup (IF hasNext THEN {plan[currentIndex + 2]} ELSE {})
    IN [k \in keys |->
            IF hasNext /\ k = plan[currentIndex + 2] THEN "active"
            ELSE IF k = id THEN "done"
            ELSE prev[k]]

\* AdvanceStates without the spread of prev at line 142: the other steps start over
AdvanceStatesForgetsPrev(prev, plan, id) ==
    LET currentIndex == FindIndex(plan, id)
        hasNext == currentIndex + 1 <= Len(plan)
    IN [k \in DOMAIN prev \cup {id} |->
            IF hasNext /\ k = plan[currentIndex + 1] THEN "active"
            ELSE IF k = id THEN "done"
            ELSE "pending"]

\* lines 141-149: the updater handleAdvance passes to setPlanStates
AdvanceStates(prev, plan, id) ==
    LET currentIndex == FindIndex(plan, id)
        hasNext == currentIndex + 1 <= Len(plan)
        keys == DOMAIN prev \cup {id} \cup (IF hasNext THEN {plan[currentIndex + 1]} ELSE {})
    IN [k \in keys |->
            IF hasNext /\ k = plan[currentIndex + 1] THEN "active"
            ELSE IF k = id THEN "done"
            ELSE prev[k]]

\* lines 178-184: the updater handleToolRun passes to setToolHistory
HistoryOf(history, toolId) ==
    IF toolId \in DOMAIN history THEN history[toolId] ELSE <<>>

\* RunStates with slice(0, 6): one run too many is kept
RunStatesKeepsSix(prev, toolId, run) ==
    [t \in DOMAIN prev \cup {toolId} |->
        IF t = toolId THEN Slice(<<run>> \o HistoryOf(prev, toolId), HISTORY_LIMIT + 1)
        ELSE prev[t]]

\* RunStates without ...prev: the histories of the other tools are lost
RunStatesForgetsOthers(prev, toolId, run) ==
    [t \in {toolId} |-> Slice(<<run>> \o HistoryOf(prev, toolId), HISTORY_LIMIT)]

RunStates(prev, toolId, run) ==
    [t \in DOMAIN prev \cup {toolId} |->
        IF t = toolId THEN Slice(<<run>> \o HistoryOf(prev, toolId), HISTORY_LIMIT)
        ELSE prev[t]]

\* the updater written [...prev, entry]: the entry is put at the end
PrependAppends(entry, prev) == prev \o <<entry>>

\* the updaters of setActivity and setInsights: [entry, ...prev]
Prepend(entry, prev) == <<entry>> \o prev

----------------------------------------------------------------------------
(* Initial state: lines 90-111 *)

Init ==
    /\ config = INITIAL_CONFIG
    /\ blueprint = INITIAL_BLUEPRINT
    /\ planStates = FreshPlanStates(INITIAL_BLUEPRINT.plan)
    /\ clock = 0
    /\ activity = <<createActivity("Agent Primed", <<"default">>, clock)>>
    /\ insights = <<>>
    /\ insightDraft = <<>>
    /\ insightCategory = "signal"
    /\ knowledgeQuery = <<>>
    /\ toolHistory = <<>>
    /\ advances = 0
    /\ fired = [t \in ToolIds |-> <<>>]
    /\ performed = 0

----------------------------------------------------------------------------
(* Event handlers *)

\* the environment: time passes between events
Tick ==
    /\ clock < MaxClock
    /\ clock' = clock + 1
    /\ UNCHANGED <<config, blueprint, planStates, activity, insights, insightDraft,
                   insightCategory, knowledgeQuery, toolHistory, advances, fired, performed>>

\* lines 255-257
EditGoal ==
    /\ \E v \in Goals : config' = [config EXCEPT !.goal = v]
    /\ UNCHANGED <<blueprint, planStates, activity, insights, insightDraft,
                   insightCategory, knowledgeQuery, toolHistory, clock, advances, fired, performed>>

\* lines 267-269
EditContext ==
    /\ \E v \in Contexts : config' = [config EXCEPT !.context = v]
    /\ UNCHANGED <<blueprint, planStates, activity, insights, insightDraft,
                   insightCategory, knowledgeQuery, toolHistory, clock, advances, fired, performed>>

\* lines 280-285
EditTimeframe ==
    /\ \E v \in timeframeOptions : config' = [config EXCEPT !.timeframe = v]
    /\ UNCHANGED <<blueprint, planStates, activity, insights, insightDraft,
                   insightCategory, knowledgeQuery, toolHistory, clock, advances, fired, performed>>

\* lines 301-306
EditIntensity ==
    /\ \E v \in intensityOptions : config' = [config EXCEPT !.intensity = v]
    /\ UNCHANGED <<blueprint, planStates, activity, insights, insightDraft,
                   insightCategory, knowledgeQuery, toolHistory, clock, advances, fired, performed>>

\* lines 323-325
EditGuardrails ==
    /\ \E v \in GuardrailTexts : config' = [config EXCEPT !.guardrails = v]
    /\ UNCHANGED <<blueprint, planStates, activity, insights, insightDraft,
                   insightCategory, knowledgeQuery, toolHistory, clock, advances, fired, performed>>

\* line 396
EditKnowledgeQuery ==
    /\ \E v \in Queries : knowledgeQuery' = v
    /\ UNCHANGED <<config, blueprint, planStates, activity, insights, insightDraft,
                   insightCategory, toolHistory, clock, advances, fired, performed>>

\* line 396, one keystroke: a character typed at the end of the query
TypeQuery ==
    /\ Len(knowledgeQuery) < MaxQueryLen
    /\ \E c \in QueryChars : knowledgeQuery' = Append(knowledgeQuery, c)
    /\ UNCHANGED <<config, blueprint, planStates, activity, insights, insightDraft,
                   insightCategory, toolHistory, clock, advances, fired, performed>>

\* line 396, one keystroke: the last character of the query deleted
EraseQuery ==
    /\ knowledgeQuery # <<>>
    /\ knowledgeQuery' = SubSeq(knowledgeQuery, 1, Len(knowledgeQuery) - 1)
    /\ UNCHANGED <<config, blueprint, planStates, activity, insights, insightDraft,
                   insightCategory, toolHistory, clock, advances, fired, performed>>

\* lines 614-616
EditInsightCategory ==
    /\ \E v \in categoryOptions : insightCategory' = v
    /\ UNCHANGED <<config, blueprint, planStates, activity, insights, insightDraft,
                   knowledgeQuery, toolHistory, clock, advances, fired, performed>>

\* line 626
EditInsightDraft ==
    /\ \E v \in Drafts : insightDraft' = v
    /\ UNCHANGED <<config, blueprint, planStates, activity, insights,
                   insightCategory, knowledgeQuery, toolHistory, clock, advances, fired, performed>>

\* handleGenerate with nextStates started from the previous plan status
handleGenerateKeepsProgress ==
    LET nextBlueprint == craftBlueprint(config)
        goalText == IF config.goal # "" THEN config.goal ELSE "new objective"
        fresh == FreshPlanStates(nextBlueprint.plan)
    IN /\ blueprint' = nextBlueprint
       /\ planStates' = [id \in DOMAIN fresh |->
                            IF id \in DOMAIN planStates THEN planStates[id] ELSE fresh[id]]
       /\ activity' = Prepend(createActivity("Mission Rebuilt", <<goalText>>, clock), activity)
       /\ advances' = 0
       /\ performed' = performed + 1
       /\ UNCHANGED <<config, insights, insightDraft, insightCategory,
                      knowledgeQuery, toolHistory, clock, fired>>

\* handleGenerate that also drops the history of the tools the new blueprint lacks
handleGeneratePrunesHistory ==
    LET nextBlueprint == craftBlueprint(config)
        goalText == IF config.goal # "" THEN config.goal ELSE "new objective"
        kept == DOMAIN toolHistory \cap {nextBlueprint.tools[i] : i \in 1..Len(nextBlueprint.tools)}
    IN /\ blueprint' = nextBlueprint
       /\ planStates' = FreshPlanStates(nextBlueprint.plan)
       /\ activity' = Prepend(createActivity("Mission Rebuilt", <<goalText>>, clock), activity)
       /\ advances' = 0
       /\ toolHistory' = [t \in kept |-> toolHistory[t]]
       /\ performed' = performed + 1
       /\ UNCHANGED <<config, insights, insightDraft, insightCategory,
                      knowledgeQuery, clock, fired>>

\* handleGenerate with a partial update: the title of the old blueprint is kept
handleGenerateKeepsTitle ==
    LET nextBlueprint == craftBlueprint(config)
        goalText == IF config.goal # "" THEN config.goal ELSE "new objective"
    IN /\ blueprint' = [nextBlueprint EXCEPT !.missionTitle = blueprint.missionTitle]
       /\ planStates' = FreshPlanStates(nextBlueprint.plan)
       /\ activity' = Prepend(createActivity("Mission Rebuilt", <<goalText>>, clock), activity)
       /\ advances' = 0
       /\ performed' = performed + 1
       /\ UNCHANGED <<config, insights, insightDraft, insightCategory,
                      knowledgeQuery, toolHistory, clock, fired>>

\* lines 123-138
handleGenerate ==
    LET nextBlueprint == craftBlueprint(config)
        goalText == IF config.goal # "" THEN config.goal ELSE "new objective"
    IN /\ blueprint' = nextBlueprint
       /\ planStates' = FreshPlanStates(nextBlueprint.plan)
       /\ activity' = Prepend(createActivity("Mission Rebuilt", <<goalText>>, clock), activity)
       /\ advances' = 0
       /\ performed' = performed + 1
       /\ UNCHANGED <<config, insights, insightDraft, insightCategory,
                      knowledgeQuery, toolHistory, clock, fired>>

\* handleAdvance without the setActivity call of lines 151-157
handleAdvanceUnlogged(id) ==
    /\ planStates' = AdvanceStates(planStates, blueprint.plan, id)
    /\ advances' = advances + 1
    /\ performed' = performed + 1
    /\ UNCHANGED <<config, blueprint, activity, insights, insightDraft, insightCategory,
                   knowledgeQuery, toolHistory, clock, fired>>

\* lines 140-158
handleAdvance(id) ==
    /\ planStates' = AdvanceStates(planStates, blueprint.plan, id)
    /\ activity' = Prepend(createActivity("Step Advanced", <<id>>, clock), activity)
    /\ advances' = advances + 1
    /\ performed' = performed + 1
    /\ UNCHANGED <<config, blueprint, insights, insightDraft, insightCategory,
                   knowledgeQuery, toolHistory, clock, fired>>

\* lines 499-501: a click on the advance button of a step of the timeline
ClickAdvance ==
    \E i \in 1..Len(blueprint.plan) :
        /\ AdvanceEnabled(planStates, blueprint.plan[i])
        /\ handleAdvance(blueprint.plan[i])

\* handleInsightCreate with setInsightDraft("") moved before the guard of line 161
handleInsightCreateClearsDraft ==
    IF ~InsightAccepted(insightDraft)
    THEN /\ insightDraft' = <<>>
         /\ UNCHANGED <<config, blueprint, planStates, activity, insights, insightCategory,
                        knowledgeQuery, toolHistory, clock, advances, fired, performed>>
    ELSE \E later \in clock..Min(clock + 1, MaxClock) :
            LET entry == [id |-> clock, text |-> Trim(insightDraft),
                          category |-> insightCategory, createdAt |-> later]
            IN /\ insights' = Prepend(entry, insights)
               /\ insightDraft' = <<>>
               /\ activity' = Prepend(createActivity("Insight Captured", entry.text, later),
                                      activity)
               /\ clock' = later
               /\ performed' = performed + 1
               /\ UNCHANGED <<config, blueprint, planStates, insightCategory,
                              knowledgeQuery, toolHistory, advances, fired>>

\* lines 160-174; Date.now() is read at line 163 and again at line 166
handleInsightCreate ==
    IF ~InsightAccepted(insightDraft)
    THEN UNCHANGED vars
    ELSE \E later \in clock..Min(clock + 1, MaxClock) :
            LET entry == [id |-> clock, text |-> Trim(insightDraft),
                          category |-> insightCategory, createdAt |-> later]
            IN /\ insights' = Prepend(entry, insights)
               /\ insightDraft' = <<>>
               /\ activity' = Prepend(createActivity("Insight Captured", entry.text, later),
                                      activity)
               /\ clock' = later
               /\ performed' = performed + 1
               /\ UNCHANGED <<config, blueprint, planStates, insightCategory,
                              knowledgeQuery, toolHistory, advances, fired>>

\* lines 176-189
handleToolRun(toolId, query) ==
    LET run == runToolSimulation(toolId, query, clock)
    IN /\ toolHistory' = RunStates(toolHistory, toolId, run)
       /\ activity' = Prepend(createActivity("Tool Fired", <<toolId>> \o run.headline, clock),
                              activity)
       /\ fired' = [fired EXCEPT ![toolId] = <<run>> \o @]
       /\ performed' = performed + 1
       /\ UNCHANGED <<config, blueprint, planStates, insights, insightDraft,
                      insightCategory, knowledgeQuery, clock, advances>>

\* line 357: the Fire button of a tool of the current blueprint
ClickFire ==
    \E i \in 1..Len(blueprint.tools) : handleToolRun(blueprint.tools[i], config.goal)

----------------------------------------------------------------------------
(* Specifications *)

Room == Len(activity) < MaxActivity

\* every user event of the component
Next ==
    \/ EditGoal
    \/ EditContext
    \/ EditTimeframe
    \/ EditIntensity
    \/ EditGuardrails
    \/ EditKnowledgeQuery
    \/ EditInsightCategory
    \/ EditInsightDraft
    \/ (Room /\ handleGenerate)
    \/ (Room /\ ClickAdvance)
    \/ (Room /\ handleInsightCreate)
    \/ (Room /\ ClickFire)

Spec == Init /\ [][Next]_vars

\* the plan timeline: the events that read or write the plan status
PlanRoom == Len(activity) < MaxPlanActivity

NextPlan ==
    \/ EditGoal
    \/ EditIntensity
    \/ (PlanRoom /\ handleGenerate)
    \/ (PlanRoom /\ ClickAdvance)

SpecPlan == Init /\ [][NextPlan]_vars

\* the plan timeline with a user who keeps advancing: an enabled advance
\* button is eventually pressed; only regeneration is limited by the log bound
NextPlanLive ==
    \/ EditGoal
    \/ EditIntensity
    \/ (PlanRoom /\ handleGenerate)
    \/ ClickAdvance

SpecPlanLive == Init /\ [][NextPlanLive]_vars /\ WF_vars(ClickAdvance)

\* the tool console: the events that read or write the tool history
ToolRoom == Len(activity) < MaxToolActivity

NextTools ==
    \/ Tick
    \/ EditTimeframe
    \/ (ToolRoom /\ handleGenerate)
    \/ (ToolRoom /\ ClickFire)

SpecTools == Init /\ [][NextTools]_vars

\* the insight stream: the events that read or write the insight list
InsightRoom == Len(activity) < MaxInsightActivity

NextInsight ==
    \/ Tick
    \/ EditInsightCategory
    \/ EditInsightDraft
    \/ (InsightRoom /\ handleInsightCreate)

SpecInsight == Init /\ [][NextInsight]_vars

\* the knowledge grid: the search box, keystroke by keystroke
NextKnowledge ==
    \/ TypeQuery
    \/ EraseQuery

SpecKnowledge == Init /\ [][NextKnowledge]_vars

----------------------------------------------------------------------------
(* Properties of the plan timeline *)

PlanIndexes == 1..Len(blueprint.plan)
StatusAt(i) == StepStatus(planStates, blueprint.plan[i])
StepsWith(status) == {i \in PlanIndexes : StatusAt(i) = status}
LabelsLogged == {activity[i].label : i \in 1..Len(activity)}

\* C1: after N advancements of a freshly generated plan exactly N steps are
\* done, at most one step is active, and the active step, if any, is the
\* first step in plan order that is not done.
C1_AdvanceCount ==
    /\ Cardinality(StepsWith("done")) = advances
    /\ Cardinality(StepsWith("active")) <= 1
    /\ \A i \in StepsWith("active") : \A j \in 1..(i - 1) : StatusAt(j) = "done"

\* a plan regenerated with three steps, two of them advanced
C1_Witness ==
    /\ "Mission Rebuilt" \in LabelsLogged
    /\ Len(blueprint.plan) = 3
    /\ advances = 2
    /\ StatusAt(3) = "active"

\* C2: exactly one step is active as long as some step is not done, and no
\* step is active once every step is done.
C2_OneActiveUntilDone ==
    IF \E i \in PlanIndexes : StatusAt(i) # "done"
    THEN Cardinality(StepsWith("active")) = 1
    ELSE StepsWith("active") = {}

\* every step of the plan advanced: all done, none active
C2_Witness ==
    /\ \A i \in PlanIndexes : StatusAt(i) = "done"
    /\ activeStep = 0
    /\ activity[1].label = "Step Advanced"

\* C3: advancing step s sets s to done and the step after it, if any, to
\* active; after the last step none is active; the other steps keep their status.
C3_AdvanceEffect ==
    [][\A i \in PlanIndexes :
          handleAdvance(blueprint.plan[i]) =>
            /\ StepStatus(planStates', blueprint.plan[i]) = "done"
            /\ i < Len(blueprint.plan) =>
                    StepStatus(planStates', blueprint.plan[i + 1]) = "active"
            /\ i = Len(blueprint.plan) =>
                    \A j \in PlanIndexes : StepStatus(planStates', blueprint.plan[j]) # "active"
            /\ \A j \in PlanIndexes \ {i, i + 1} :
                    StepStatus(planStates', blueprint.plan[j]) = StatusAt(j)
            /\ DOMAIN planStates' = DOMAIN planStates]_vars

\* the last step of a three-step plan has just been advanced
C3_Witness ==
    /\ Len(blueprint.plan) = 3
    /\ activity[1].label = "Step Advanced"
    /\ activity[1].detail = <<blueprint.plan[3]>>
    /\ StatusAt(3) = "done"

\* C4: the advance control of a step is enabled exactly when the step is
\* active, so handleAdvance is only ever applied to an active step.
C4_AdvanceOnlyActive ==
    [][/\ \A i \in PlanIndexes :
            /\ blueprint.plan[i] \in DOMAIN planStates
            /\ AdvanceEnabled(planStates, blueprint.plan[i])
                    <=> planStates[blueprint.plan[i]] = "active"
       /\ \A id \in StepIds :
            handleAdvance(id) => id \in DOMAIN planStates /\ planStates[id] = "active"]_vars

\* a step was advanced while another step was pending and another done
C4_Witness ==
    /\ activity[1].label = "Step Advanced"
    /\ StepsWith("done") # {}
    /\ StepsWith("pending") # {}
    /\ StepsWith("active") # {}

\* C5 as stated: a done step id never becomes pending or active again under
\* any operation, regeneration included, and an active step never becomes pending.
NoRollback(id) ==
    /\ StepStatus(planStates, id) = "done" => StepStatus(planStates', id) = "done"
    /\ StepStatus(planStates, id) = "active" => StepStatus(planStates', id) # "pending"

C5_NoRollbackEver == [][\A id \in StepIds : NoRollback(id)]_vars

\* C5 amended: every operation other than regenerating the blueprint keeps a
\* done step done and never moves an active step back to pending.
C5_NoRollbackButGenerate == [][handleGenerate \/ \A id \in StepIds : NoRollback(id)]_vars

\* a step was advanced after an earlier step was done
C5_Witness ==
    /\ activity[1].label = "Step Advanced"
    /\ Cardinality(StepsWith("done")) = 2

\* C6: regenerating the blueprint leaves the first step of the new plan
\* active, every other step of it pending, and no step done.
C6_GenerateResets ==
    [][handleGenerate =>
          /\ blueprint' = craftBlueprint(config)
          /\ DOMAIN planStates' = {blueprint'.plan[i] : i \in 1..Len(blueprint'.plan)}
          /\ \A i \in 1..Len(blueprint'.plan) :
                planStates'[blueprint'.plan[i]] = IF i = 1 THEN "active" ELSE "pending"]_vars

\* regenerated after two steps were advanced
C6_Witness ==
    /\ Len(activity) >= 4
    /\ activity[1].label = "Mission Rebuilt"
    /\ activity[2].label = "Step Advanced"
    /\ activity[3].label = "Step Advanced"
    /\ StatusAt(1) = "active"

----------------------------------------------------------------------------
(* Properties of the tool console *)

\* C7: the history of every tool id holds at most 5 runs, newest first: after
\* k fires it is the min(k, 5) most recent runs of the tool.
C7_HistoryCapped ==
    \A t \in ToolIds :
        /\ Len(HistoryOf(toolHistory, t)) <= 5
        /\ HistoryOf(toolHistory, t) = SubSeq(fired[t], 1, Min(Len(fired[t]), 5))
        /\ \A i, j \in 1..Len(HistoryOf(toolHistory, t)) :
                i < j => toolHistory[t][i].timestamp >= toolHistory[t][j].timestamp
        /\ t \in DOMAIN toolHistory <=> fired[t] # <<>>

\* a tool fired six times: the oldest run is gone
C7_Witness ==
    \E t \in ToolIds :
        /\ Len(fired[t]) = 6
        /\ Len(HistoryOf(toolHistory, t)) = 5
        /\ fired[t][1].timestamp > fired[t][6].timestamp

\* C8: regenerating the blueprint leaves the history of every tool id as it
\* was, also of the tool ids the new blueprint does not list.
C8_HistorySurvivesGenerate ==
    [][handleGenerate =>
          \A t \in ToolIds : HistoryOf(toolHistory', t) = HistoryOf(toolHistory, t)]_vars

\* regenerated with a tool list that lacks a tool that has a history
C8_Witness ==
    /\ activity[1].label = "Mission Rebuilt"
    /\ \E t \in DOMAIN toolHistory :
            /\ toolHistory[t] # <<>>
            /\ \A i \in 1..Len(blueprint.tools) : blueprint.tools[i] # t

----------------------------------------------------------------------------
(* Properties of the insight stream and of the activity log *)

IsBlank(draft) == \A i \in 1..Len(draft) : draft[i] = " "

\* C9: the insight list is newest first: an accepted submission becomes the
\* head and the earlier entries follow in their order; an empty or blank
\* draft adds no entry.
C9_InsightsNewestFirst ==
    [][/\ IsBlank(insightDraft) => insights' = insights
       /\ handleInsightCreate /\ ~IsBlank(insightDraft) =>
            /\ Len(insights') = Len(insights) + 1
            /\ Tail(insights') = insights
            /\ ~IsBlank(Head(insights').text)
            /\ Head(insights').category = insightCategory
            /\ \A i \in 1..Len(insights) : Head(insights').createdAt >= insights[i].createdAt
       /\ insights' # insights => handleInsightCreate]_vars

\* two insights captured at different times, the later one first
C9_Witness ==
    /\ Len(insights) = 2
    /\ insights[1].createdAt > insights[2].createdAt
    /\ insights[1].category # insights[2].category

\* C10 as stated: every user event adds an entry to the activity log.
C10_EveryEventLogged == [][Len(activity') = Len(activity) + 1]_vars

\* C10 amended: generating, advancing a step, firing a tool and an accepted
\* insight each put one entry at the head of the activity log; the edits of
\* the config fields, the knowledge query, the insight category and the
\* insight draft, and a blank insight submission, add none.
C10_HandlersLogged ==
    [][/\ \/ Len(activity') = Len(activity) + 1 /\ Tail(activity') = activity
          \/ ~(handleGenerate \/ ClickAdvance \/ ClickFire
                \/ (handleInsightCreate /\ ~IsBlank(insightDraft)))
       /\ \/ activity' = activity
          \/ ~(EditGoal \/ EditContext \/ EditTimeframe \/ EditIntensity \/ EditGuardrails
                \/ EditKnowledgeQuery \/ EditInsightCategory \/ EditInsightDraft
                \/ (handleInsightCreate /\ IsBlank(insightDraft)))]_vars

\* config and query edited, and two handlers logged
C10_Witness ==
    /\ config.goal # INITIAL_CONFIG.goal
    /\ knowledgeQuery # <<>>
    /\ Len(activity) = 3
    /\ activity[1].label = "Tool Fired"
    /\ activity[2].label = "Step Advanced"

----------------------------------------------------------------------------
(* Properties of the blueprint *)

Configs ==
    [goal : Goals, context : Contexts, timeframe : timeframeOptions,
     intensity : intensityOptions, guardrails : GuardrailTexts]

\* C11 as stated: in every reachable state the held blueprint is
\* craftBlueprint of the current config.
C11_BlueprintTracksConfig == blueprint = craftBlueprint(config)

\* C11 amended: the blueprint is recomputed entirely by handleGenerate alone:
\* after a generate it is craftBlueprint of the current config, every other
\* step leaves it as it was, and it is always craftBlueprint of some config.
C11_BlueprintTracksGenerate ==
    [][/\ handleGenerate => blueprint' = craftBlueprint(config')
       /\ blueprint' = blueprint \/ handleGenerate
       /\ \E cfg \in Configs : blueprint' = craftBlueprint(cfg)]_vars

\* regenerated from an edited config, and the config edited again since
C11_Witness ==
    /\ "Mission Rebuilt" \in LabelsLogged
    /\ blueprint # INITIAL_BLUEPRINT
    /\ blueprint # craftBlueprint(config)

----------------------------------------------------------------------------
(* Properties of the knowledge grid *)

Shown(item) == \E j \in 1..Len(knowledgeResults) : knowledgeResults[j] = item

----------------------------------------------------------------------------
(* Properties of the insight submission *)

\* C13: an empty or blank insight submission is ignored: handleInsightCreate
\* then changes nothing, neither the insight list, the activity log, the
\* draft, the category, the plan status nor the tool history.
C13_BlankIgnored ==
    [][handleInsightCreate /\ IsBlank(insightDraft) =>
          UNCHANGED <<insights, activity, insightDraft, insightCategory, planStates,
                      toolHistory, config, blueprint, knowledgeQuery>>]_vars

\* a blank draft in the box after an insight was captured: submitting it
\* leads back to this very state
C13_Witness ==
    /\ insightDraft = <<" ", " ">>
    /\ ~InsightAccepted(insightDraft)
    /\ insights # <<>>
    /\ InsightRoom

----------------------------------------------------------------------------
(* Properties of the two logs *)

PrependedOrSame(before, after) ==
    \/ after = before
    \/ Len(after) = Len(before) + 1 /\ Tail(after) = before

\* C14: the activity log and the insight list only grow at the head: every
\* operation leaves each list as it was or puts one new entry at its head;
\* generate, advance, tool fire and an accepted insight each add one activity
\* entry, so the activity log holds 1 entry plus one per such operation.
C14_AppendOnly ==
    [][/\ PrependedOrSame(activity, activity')
       /\ PrependedOrSame(insights, insights')
       /\ Len(activity) = 1 + performed
       /\ Len(activity') = 1 + performed'
       /\ Len(insights') = Len(insights) + 1 => Len(activity') = Len(activity) + 1]_vars

\* an insight captured after a regeneration: three activity entries, two operations
C14_Witness ==
    /\ Len(activity) = 3
    /\ performed = 2
    /\ activity[1].label = "Insight Captured"
    /\ activity[2].label = "Mission Rebuilt"
    /\ Len(insights) = 1

----------------------------------------------------------------------------
(* Frame of a tool run *)

\* C15: firing tool t changes only the history of t and the activity log: the
\* history of every other tool id, the plan status, the blueprint, the config
\* and the insight list stay as they were, and the new history of t is the
\* new run followed by the first 4 runs of its previous history.
C15_FireFrame ==
    [][\A t \in ToolIds :
          handleToolRun(t, config.goal) =>
              /\ \A u \in ToolIds \ {t} :
                      HistoryOf(toolHistory', u) = HistoryOf(toolHistory, u)
              /\ planStates' = planStates
              /\ blueprint' = blueprint
              /\ config' = config
              /\ insights' = insights
              /\ insightDraft' = insightDraft
              /\ insightCategory' = insightCategory
              /\ knowledgeQuery' = knowledgeQuery
              /\ HistoryOf(toolHistory', t) =
                      <<runToolSimulation(t, config.goal, clock)>>
                          \o SubSeq(HistoryOf(toolHistory, t), 1,
                                    Min(Len(HistoryOf(toolHistory, t)), 4))
              /\ Tail(activity') = activity]_vars

\* the sixth run of a tool, fired while another tool has a history
C15_Witness ==
    /\ activity[1].label = "Tool Fired"
    /\ \E t \in ToolIds :
            /\ activity[1].detail[1] = t
            /\ Len(fired[t]) = 6
            /\ Len(HistoryOf(toolHistory, t)) = 5
            /\ \E u \in ToolIds \ {t} : HistoryOf(toolHistory, u) # <<>>

----------------------------------------------------------------------------
(* Completion of the plan *)

AllDone == \A i \in PlanIndexes : StatusAt(i) = "done"

\* C16: for a plan of K steps, a user who keeps advancing the active step and
\* stops regenerating brings the plan to the state where all K steps are done
\* and none is active (activeStep undefined); that state is reached after
\* exactly K advancements, no advance button is enabled in it, and only a
\* regeneration leaves it.
C16_AdvancingCompletes ==
    /\ (~AllDone) ~> (AllDone /\ activeStep = 0 /\ advances = Len(blueprint.plan))
    /\ <>[](AllDone /\ activeStep = 0)
    /\ [](AllDone <=> advances = Len(blueprint.plan))
    /\ [](AllDone => /\ activeStep = 0
                     /\ \A i \in PlanIndexes : ~AdvanceEnabled(planStates, blueprint.plan[i])
                     /\ ~ENABLED ClickAdvance)
    /\ [][AllDone /\ ~AllDone' => handleGenerate]_vars

\* a regenerated plan of three steps completed by three advancements
C16_Witness ==
    /\ activity[1].label = "Step Advanced"
    /\ "Mission Rebuilt" \in LabelsLogged
    /\ Len(blueprint.plan) = 3
    /\ advances = 3
    /\ AllDone
    /\ activeStep = 0

----------------------------------------------------------------------------
(* Identity of the insights *)

\* C17: in every reachable state the entries of the insight list have
\* pairwise distinct ids, an id being the clock reading in milliseconds at
\* submission, also when two insights are accepted with no clock tick between.
C17_DistinctIds ==
    \A i, j \in 1..Len(insights) : i # j => insights[i].id # insights[j].id

====
